---------------------------- MODULE Spec2Model ----------------------------
(***************************************************************************)
(* Model of api/search.js: the serverless handler that turns a shopping    *)
(* prompt into search criteria (language model or local heuristic),        *)
(* queries the marketplace, looks up each item's seller concurrently,      *)
(* scores, sorts and answers.                                              *)
(*                                                                         *)
(* JavaScript values are tagged records [t |-> type, v |-> payload].       *)
(* Texts that the code inspects (prompts, model replies, dates) are        *)
(* sequences of one-character strings; the accented letters are the        *)
(* tokens "a_acute", "o_acute", "n_tilde".  Fractions are kept exact:      *)
(* priority weights are hundredths, score components are rationals.        *)
(***************************************************************************)
EXTENDS Integers, Sequences, FiniteSets, TLC

VARIABLES
  pc,          \* where the handler waits: start, getJsonBody, openai, search, lookups, done
  req,         \* the request: method and the body the platform parsed, if any
  hasKey,      \* process.env.OPENAI_API_KEY is set
  body,        \* the body the handler read: req.body, or what getJsonBody resolved with
  prompt,      \* the trimmed prompt
  criteria,    \* the criteria the extraction produced
  q,           \* the text of the search query
  mlResp,      \* how the marketplace search ended (and the body of a non-success)
  items,       \* the items of the search reply
  lookup,      \* per item: skipped (no seller id), inflight, failed, ok
  sellerInfos, \* per item: the sellerInfo its callback ended with
  slots,       \* per item: the result its callback returned, once it has
  response,    \* the response sent
  calls,       \* outbound requests issued so far, per service
  warned       \* console.warn reported a failed extraction

vars == <<pc, req, hasKey, body, prompt, criteria, q, mlResp, items, lookup,
          sellerInfos, slots, response, calls, warned>>

\* ------------------------------------------------------------------ bounds

\* Most items one marketplace reply carries in the model (the code asks for 8).
MaxItems == 2

\* Most words of a prompt handed to the heuristic in SpecHeuristic.
MaxWords == 4

\* ------------------------------------------------------- JavaScript values

Undefined == [t |-> "undefined"]
Null == [t |-> "null"]
Str(s) == [t |-> "string", v |-> s]
Num(n) == [t |-> "number", v |-> n]
Bool(b) == [t |-> "boolean", v |-> b]
Arr(s) == [t |-> "array", v |-> s]
Obj(f) == [t |-> "object", v |-> f]

\* JavaScript truthiness, as used by ||, ?: and !.
Truthy(x) ==
  CASE x.t \in {"undefined", "null"} -> FALSE
    [] x.t = "string" -> x.v # <<>>
    [] x.t = "number" -> x.v # 0
    [] x.t = "boolean" -> x.v
    [] OTHER -> TRUE

\* a || b
Or(a, b) == IF Truthy(a) THEN a ELSE b

\* o.k for a value that is not null or undefined: a missing property, or a
\* property of a primitive, reads as undefined.
Get(o, k) == IF o.t = "object" /\ k \in DOMAIN o.v THEN o.v[k] ELSE Undefined

\* o.k throws a TypeError when o is null or undefined.
Throws(o) == o.t \in {"undefined", "null"}

\* -------------------------------------------------------------------- text

W_auricular == <<"a", "u", "r", "i", "c", "u", "l", "a", "r">>
W_auriculares == <<"a", "u", "r", "i", "c", "u", "l", "a", "r", "e", "s">>
W_celular == <<"c", "e", "l", "u", "l", "a", "r">>
W_notebook == <<"n", "o", "t", "e", "b", "o", "o", "k">>
W_zapatilla == <<"z", "a", "p", "a", "t", "i", "l", "l", "a">>
W_zapatillas == <<"z", "a", "p", "a", "t", "i", "l", "l", "a", "s">>
W_monitor == <<"m", "o", "n", "i", "t", "o", "r">>
W_televisor == <<"t", "e", "l", "e", "v", "i", "s", "o", "r">>
W_tv == <<"t", "v">>
W_semana == <<"s", "e", "m", "a", "n", "a">>
W_una_semana == <<"u", "n", "a", " ", "s", "e", "m", "a", "n", "a">>
W_dentro_de_una_semana == <<"d", "e", "n", "t", "r", "o", " ", "d", "e", " ", "u", "n", "a", " ", "s", "e", "m", "a", "n", "a">>
W_barato == <<"b", "a", "r", "a", "t", "o">>
W_lo_mas_barato == <<"l", "o", " ", "m", "a", "s", " ", "b", "a", "r", "a", "t", "o">>
W_rapido == <<"r", "a_acute", "p", "i", "d", "o">>
W_entrega_rapida == <<"e", "n", "t", "r", "e", "g", "a", " ", "r", "a_acute", "p", "i", "d", "a">>
W_resenas == <<"r", "e", "s", "e", "n_tilde", "a", "s">>
W_opiniones == <<"o", "p", "i", "n", "i", "o", "n", "e", "s">>

\* Words that only prompts use.
W_barata == <<"b", "a", "r", "a", "t", "a">>
W_hasta == <<"h", "a", "s", "t", "a">>
W_dollar300 == <<"$", "3", "0", "0">>
W_hola == <<"h", "o", "l", "a">>
W_Notebook == <<"N", "o", "t", "e", "b", "o", "o", "k">>
W_5 == <<"5">>
W_1234567 == <<"1", "2", "3", "4", "5", "6", "7">>

Digits == {"0", "1", "2", "3", "4", "5", "6", "7", "8", "9"}

DigitVal(c) ==
  CASE c = "0" -> 0 [] c = "1" -> 1 [] c = "2" -> 2 [] c = "3" -> 3
    [] c = "4" -> 4 [] c = "5" -> 5 [] c = "6" -> 6 [] c = "7" -> 7
    [] c = "8" -> 8 [] c = "9" -> 9

\* \s of the regular expressions; prompts of the model hold no other blank.
IsSpace(c) == c = " "

\* String.prototype.toLowerCase, on the capitals the prompts of the model use.
LowerChar(c) ==
  CASE c = "N" -> "n" [] c = "T" -> "t" [] c = "V" -> "v" [] c = "B" -> "b"
    [] OTHER -> c

toLowerCase(s) == [i \in 1..Len(s) |-> LowerChar(s[i])]

\* String.prototype.trim
RECURSIVE TrimLeft(_)
TrimLeft(s) == IF s # <<>> /\ IsSpace(Head(s)) THEN TrimLeft(Tail(s)) ELSE s

RECURSIVE TrimRight(_)
TrimRight(s) ==
  IF s # <<>> /\ IsSpace(s[Len(s)]) THEN TrimRight(SubSeq(s, 1, Len(s) - 1)) ELSE s

trimNoOp(s) == s

trim(s) == TrimRight(TrimLeft(s))

\* w occurs in s at position i.
MatchesAt(s, w, i) == i + Len(w) - 1 <= Len(s) /\ SubSeq(s, i, i + Len(w) - 1) = w

\* String.prototype.includes
includes(s, w) == \E i \in 1..(Len(s) + 1) : MatchesAt(s, w, i)

\* parseInt(digits, 10) on a run of decimal digits.
RECURSIVE parseInt(_)
parseInt(ds) ==
  IF ds = <<>> THEN 0
  ELSE 10 * parseInt(SubSeq(ds, 1, Len(ds) - 1)) + DigitVal(ds[Len(ds)])

\* ---------------------------------------------------------- heuristicParse

categories == <<W_auricular, W_auriculares, W_celular, W_notebook, W_zapatilla,
                W_zapatillas, W_monitor, W_televisor, W_tv>>

\* for (const c of categories) if (p.includes(c)) { category = c; break; }
FirstCategory(p) ==
  LET hits == {k \in 1..Len(categories) : includes(p, categories[k])}
  IN IF hits = {} THEN Null
     ELSE Str(categories[CHOOSE k \in hits : \A h \in hits : k <= h])

\* The alternation of the keywords pattern, in its order (monitor comes before
\* zapatilla here, unlike in categories).
keywordAlternatives == <<W_auricular, W_auriculares, W_celular, W_notebook, W_monitor,
                         W_zapatilla, W_zapatillas, W_televisor, W_tv>>

\* p.match(/auricular|...|tv/)?.[0] || '': the leftmost match, and at that
\* place the first alternative that matches.
KeywordMatch(p) ==
  LET alts == keywordAlternatives
      at(i) == {k \in 1..Len(alts) : MatchesAt(p, alts[k], i)}
      places == {i \in 1..Len(p) : at(i) # {}}
  IN IF places = {} THEN <<>>
     ELSE LET i == CHOOSE x \in places : \A y \in places : x <= y
          IN alts[CHOOSE k \in at(i) : \A h \in at(i) : k <= h]

\* The digits [0-9]{2,6} captures when /\$?\s?([0-9]{2,6})(...)?/ is tried at
\* place i: an optional "$", an optional blank, then two to six digits,
\* greedily; <<>> when the pattern does not match there.  (Giving the "$" or
\* the blank back cannot help: neither is a digit.)  The optional currency
\* word after the digits is no part of the capture.
RECURSIVE DigitRun(_, _, _)
DigitRun(p, j, n) ==
  IF n > 0 /\ j <= Len(p) /\ p[j] \in Digits
    THEN <<p[j]>> \o DigitRun(p, j + 1, n - 1)
    ELSE <<>>

PriceCaptureAt(p, i) ==
  LET j1 == IF i <= Len(p) /\ p[i] = "$" THEN i + 1 ELSE i
      j2 == IF j1 <= Len(p) /\ IsSpace(p[j1]) THEN j1 + 1 ELSE j1
      run == DigitRun(p, j2, 6)
  IN IF Len(run) >= 2 THEN run ELSE <<>>

\* let budget_max = null; if (priceMatch) budget_max = parseInt(priceMatch[1]...)
BudgetMax(p) ==
  LET places == {i \in 1..Len(p) : PriceCaptureAt(p, i) # <<>>}
  IN IF places = {} THEN Null
     ELSE Num(parseInt(PriceCaptureAt(p, CHOOSE x \in places : \A y \in places : x <= y)))

\* new Date(Date.now() + 7 days).toISOString().split('T')[0]: some date text,
\* never empty.
DateInAWeek == Str(<<"2", "0", "2", "6", "-", "1", "1", "-", "1", "0">>)

\* p.includes('barato') || p.includes('lo mas barato')
cheapWords(p) == includes(p, W_barato) \/ includes(p, W_lo_mas_barato)

heuristicParse(text) ==
  LET p == toLowerCase(text)
      category == FirstCategory(p)
      budget_max == BudgetMax(p)
      latest_delivery_date ==
        IF includes(p, W_semana) \/ includes(p, W_una_semana)
             \/ includes(p, W_dentro_de_una_semana)
          THEN DateInAWeek ELSE Null
      keywords == (IF Truthy(category) THEN category.v ELSE <<>>) \o <<" ">> \o KeywordMatch(p)
      priority_weights ==
        [price |-> IF cheapWords(p) THEN 70 ELSE 40,
         delivery_time |->
           IF includes(p, W_rapido) \/ includes(p, W_entrega_rapida)
                \/ Truthy(latest_delivery_date)
             THEN 30 ELSE 15,
         reviews |-> IF includes(p, W_resenas) \/ includes(p, W_opiniones) THEN 25 ELSE 10,
         seller_reputation |-> 5]
  IN Obj([keywords |-> Or(Str(trim(keywords)), Null),
          category |-> Or(category, Null),
          must_have |-> Arr(<<>>),
          nice_to_have |-> Arr(<<>>),
          avoid |-> Arr(<<>>),
          budget_min |-> Null,
          budget_max |-> budget_max,
          latest_delivery_date |-> latest_delivery_date,
          condition_preference |-> Null,
          priority_weights |-> priority_weights,
          extra_instructions |-> Str(text)])


\* ------------------------------------------------------------ the request

PromptNotebook == W_notebook \o <<" ">> \o W_barata \o <<" ">> \o W_hasta \o <<" ">> \o W_dollar300

PromptWeek == W_tv \o <<" ">> \o W_una_semana

\* The prompts a parsed request body may carry: empty, blank, and a real one
\* with blanks around it.
PromptTexts == {<<>>, <<" ", " ">>, <<" ">> \o PromptNotebook \o <<" ">>}

EmptyFields == <<>>

\* req.body as the platform's body parser leaves it: absent, an object with no
\* prompt, or an object with one.
Bodies == {Undefined, Obj(EmptyFields)} \cup {Obj([prompt |-> Str(t)]) : t \in PromptTexts}

Methods == {"GET", "OPTIONS", "POST"}

\* What getJsonBody's JSON.parse(data || '{}') makes of the request stream: it
\* rejects on malformed data, and else resolves with the parsed value.
StreamOutcomes ==
  {[rejected |-> TRUE]}
    \cup {[rejected |-> FALSE, value |-> b] : b \in {Null, Obj(EmptyFields), Obj([prompt |-> Str(PromptWeek)])}}

\* ------------------------------------------------------- the handler's state

NoResponse == [sent |-> FALSE]

\* res.status(s).json(b), and res.status(s).end() with no body.
Sent(status, json) == [sent |-> TRUE, status |-> status, body |-> json]

EndOfBody == [end |-> TRUE]

IsOk(r) == r.sent /\ "ok" \in DOMAIN r.body

\* The part of the state the handler's straight-line code writes.
Cur == [pc |-> pc, body |-> body, prompt |-> prompt, criteria |-> criteria, q |-> q,
        response |-> response, calls |-> calls, warned |-> warned]

Set(n) ==
  /\ pc' = n.pc
  /\ body' = n.body
  /\ prompt' = n.prompt
  /\ criteria' = n.criteria
  /\ q' = n.q
  /\ response' = n.response
  /\ calls' = n.calls
  /\ warned' = n.warned

send(st, status, json) == [st EXCEPT !.pc = "done", !.response = Sent(status, json)]

\* catch (err) { return res.status(500).json({ error: 'server error', detail: err.message }) }
serverError(st, message) == send(st, 500, [error |-> "server error", detail |-> message])

\* criteria.keywords || criteria.category || prompt, the text handed to
\* encodeURIComponent.
Query(crit, text) == Or(Or(Get(crit, "keywords"), Get(crit, "category")), Str(text))

\* Lines 50-54: build the query and issue the one search request.  Reading
\* criteria.keywords of null throws, and the outer catch answers.
startSearch(st, crit) ==
  IF Throws(crit)
    THEN serverError([st EXCEPT !.criteria = crit], "Cannot read properties of null")
    ELSE [st EXCEPT !.criteria = crit, !.q = Query(crit, st.prompt), !.pc = "search",
                    !.calls.search = @ + 1]

\* Lines 36-46: with a credential the language model is asked (and the
\* handler waits); without one the heuristic answers at once.
extract(st, text) ==
  IF hasKey
    THEN [st EXCEPT !.prompt = text, !.pc = "openai", !.calls.openai = @ + 1]
    ELSE startSearch([st EXCEPT !.prompt = text], heuristicParse(text))

\* Lines 30-33: (body.prompt || '').toString().trim(), and the 400.
validate(st0, b) ==
  LET st == [st0 EXCEPT !.body = b]
  IN IF Throws(b)
       THEN serverError(st, "Cannot read properties of null")
       ELSE LET text == trim(Or(Get(b, "prompt"), Str(<<>>)).v)
            IN IF text = <<>>
                 THEN send(st, 400, [error |-> "prompt is required"])
                 ELSE extract(st, text)


\* ------------------------------------------------- parsePromptWithOpenAI

J_empty_object == <<"{", "}">>
J_null == <<"n", "u", "l", "l">>
J_date_empty == <<"{", "\"", "l", "a", "t", "e", "s", "t", "_", "d", "e", "l", "i", "v", "e", "r", "y", "_", "d", "a", "t", "e", "\"", ":", "\"", "\"", "}">>
J_date_set == <<"{", "\"", "l", "a", "t", "e", "s", "t", "_", "d", "e", "l", "i", "v", "e", "r", "y", "_", "d", "a", "t", "e", "\"", ":", "\"", "2", "0", "2", "6", "-", "1", "1", "-", "2", "0", "\"", "}">>
J_malformed == <<"{", "o", "o", "p", "s", "}">>
T_no_json == <<"n", "o", " ", "s", "e">>
T_prose_before == <<"C", "l", "a", "r", "o", ":", " ">>
T_prose_after == <<" ", "l", "i", "s", "t", "o">>

ModelDate == <<"2", "0", "2", "6", "-", "1", "1", "-", "2", "0">>

\* JSON.parse on the texts the model's replies can hand it; any other text is
\* not JSON and throws.
JSONparse(text) ==
  CASE text = J_empty_object -> [threw |-> FALSE, value |-> Obj(EmptyFields)]
    [] text = J_null -> [threw |-> FALSE, value |-> Null]
    [] text = J_date_empty -> [threw |-> FALSE, value |-> Obj([latest_delivery_date |-> Str(<<>>)])]
    [] text = J_date_set -> [threw |-> FALSE, value |-> Obj([latest_delivery_date |-> Str(ModelDate)])]
    [] OTHER -> [threw |-> TRUE]

\* text.match(/\{[\s\S]*\}/): from the first "{" that has a "}" after it to the
\* last "}" of the text; the whole text when there is no such span.
FirstJsonSpan(text) ==
  LET closes == {j \in 1..Len(text) : text[j] = "}"}
      opens == {i \in 1..Len(text) : text[i] = "{" /\ \E j \in closes : j > i}
  IN IF opens = {} THEN text
     ELSE SubSeq(text, CHOOSE i \in opens : \A k \in opens : i <= k,
                       CHOOSE j \in closes : \A k \in closes : j >= k)

\* What the chat-completions call can come back with: a network error, a
\* non-success status, a body that is not JSON, or a body whose first message
\* content is missing or is some text.
OpenAIReplies ==
  {[kind |-> "neterr"], [kind |-> "notok"], [kind |-> "badjson"]}
    \cup {[kind |-> "json", content |-> c] :
            c \in {Str(<<>>), Str(T_no_json), Str(J_malformed), Str(J_null),
                   Str(J_date_empty),
                   Str(T_prose_before \o J_date_set \o T_prose_after)}}

\* Lines 153-172: [threw |-> TRUE] for a throw, else the parsed value.
parsePromptWithOpenAI(reply) ==
  IF reply.kind # "json" THEN [threw |-> TRUE]
  ELSE LET text == Or(reply.content, Str(J_empty_object)).v
       IN JSONparse(FirstJsonSpan(text))


\* --------------------------------------------------- the marketplace's data

\* item.price as the marketplace sends it: missing (falsy, as a price of zero
\* is), negative, positive.
PriceValues == {Undefined, Num(-50), Num(100)}

\* item.shipping?.free_shipping as the marketplace sends it: no shipping
\* block at all, or the flag set.
ShippingValues == {Undefined, Bool(TRUE)}

\* item.seller: missing, or a reference that carries the seller's id.
SellerRefs == {Undefined, Obj([id |-> Num(501)])}

ItemShapes == [price : PriceValues, shipping : ShippingValues, seller : SellerRefs]

\* A reply's results array: n items, the item at place i carrying id i.
Batches ==
  UNION {{[i \in 1..n |-> [id |-> i, price |-> f[i].price, shipping |-> f[i].shipping,
                           seller |-> f[i].seller]] : f \in [1..n -> ItemShapes]}
         : n \in 0..MaxItems}

\* How the search request can end: a network error, a non-success status with
\* its body text, a success whose body is not JSON, a success whose JSON has
\* no results array, or a success with a batch of items.
SearchReplies ==
  {[kind |-> "neterr"], [kind |-> "notok", text |-> "forbidden"],
   [kind |-> "notok", text |-> ""], [kind |-> "badjson"], [kind |-> "noarray"]}
    \cup {[kind |-> "ok", results |-> b] : b \in Batches}

\* new Date().getFullYear()
CurrentYear == 2026

D_old == <<"2", "0", "1", "4", "-", "0", "3", "-", "0", "9">>
D_future == <<"2", "0", "4", "6", "-", "0", "3", "-", "0", "9">>

\* The registration_date of a seller's detail: a date whose year is more than
\* ten years back, or later than the current year.
RegistrationDates == {Str(D_old), Str(D_future)}

\* The seller detail object a successful lookup parses.
SellerDetails(id) ==
  {Obj([id |-> id, nickname |-> Str(<<"v">>), registration_date |-> d,
        permalink |-> Str(<<"u">>)]) : d \in RegistrationDates}

\* --------------------------------------------------------------- enrichment

\* item.seller?.id
SellerIdOf(item) == IF Throws(item.seller) THEN Undefined ELSE Get(item.seller, "id")

\* item.seller && item.seller.id
NamesSeller(item) == Truthy(item.seller) /\ Truthy(SellerIdOf(item))

SellerBlockDropsId(item, sellerInfo) ==
  IF Truthy(sellerInfo)
    THEN Obj([id |-> Get(sellerInfo, "id"), nickname |-> Get(sellerInfo, "nickname"),
              registration_date |-> Get(sellerInfo, "registration_date"),
              permalink |-> Get(sellerInfo, "permalink")])
    ELSE Obj([id |-> Null])

\* Lines 82-87: the whole seller detail when the lookup gave one, else only
\* the item's seller id, or null.
SellerBlock(item, sellerInfo) ==
  IF Truthy(sellerInfo)
    THEN Obj([id |-> Get(sellerInfo, "id"), nickname |-> Get(sellerInfo, "nickname"),
              registration_date |-> Get(sellerInfo, "registration_date"),
              permalink |-> Get(sellerInfo, "permalink")])
    ELSE Obj([id |-> Or(SellerIdOf(item), Null)])

FreeShippingAsSent(item) == item.shipping

\* item.shipping?.free_shipping || false
FreeShipping(item) == Or(item.shipping, Bool(FALSE))

\* Lines 73-89: the result a callback returns (title, currency, thumbnail,
\* permalink, condition and the raw item are copied like id and are left out).
Enrich(item, sellerInfo) ==
  [id |-> item.id, price |-> item.price, free_shipping |-> FreeShipping(item),
   seller |-> SellerBlock(item, sellerInfo)]

\* No result yet: the callback of this item is still waiting for its lookup.
Pending == [pending |-> TRUE]

writeSlotByCompletion(sl, i, result) ==
  LET free == {k \in DOMAIN sl : sl[k] = Pending}
  IN [sl EXCEPT ![CHOOSE k \in free : \A h \in free : k <= h] = result]

\* Promise.all keeps each callback's result at the place of its item.
writeSlot(sl, i, result) == [sl EXCEPT ![i] = result]

\* ------------------------------------------------------------------ scoring

SetMin(S) == CHOOSE x \in S : \A y \in S : x <= y
SetMax(S) == CHOOSE x \in S : \A y \in S : x >= y

\* results.map(r => r.price || 0).filter(Boolean)
prices(results) ==
  {Or(results[i].price, Num(0)).v : i \in DOMAIN results} \ {0}

minPrice(results) == IF prices(results) # {} THEN SetMin(prices(results)) ELSE 0

\* prices.length ? Math.max(...prices) : minPrice || 1
maxPrice(results) ==
  IF prices(results) # {} THEN SetMax(prices(results))
  ELSE IF minPrice(results) # 0 THEN minPrice(results) ELSE 1

\* The price component as an exact fraction [n, d], d > 0.
scorePrice(r, results) ==
  LET lo == minPrice(results)
      hi == maxPrice(results)
      p == Or(r.price, Num(hi)).v
  IN IF hi = lo THEN [n |-> 1, d |-> 1]
     ELSE [n |-> (hi - lo) - (p - lo), d |-> hi - lo]

\* In hundredths: 1 with free shipping, else 0.45.
scoreShipping(r) == IF Truthy(r.free_shipping) THEN 100 ELSE 45

\* new Date(registration_date).getFullYear(), on the dates of the model.
getFullYear(date) == parseInt(SubSeq(date, 1, 4))

Min2(a, b) == IF a <= b THEN a ELSE b

\* In hundredths: 0.5 without a registration date, else
\* Math.min(1, 0.4 + 0.06 * Math.min(age, 10)).
scoreSeller(r) ==
  LET reg == Get(r.seller, "registration_date")
  IN IF Truthy(r.seller) /\ Truthy(reg)
       THEN Min2(100, 40 + 6 * Min2(CurrentYear - getFullYear(reg.v), 10))
       ELSE 50

\* Math.round of the fraction n/d, d > 0: halves go up.
round(n, d) == (2 * n + d) \div (2 * d)

\* Math.round((0.6 * scorePrice + 0.2 * scoreShipping + 0.2 * scoreSeller) * 100)
score(r, results) ==
  LET sp == scorePrice(r, results)
  IN round(6000 * sp.n + sp.d * (20 * scoreShipping(r) + 20 * scoreSeller(r)), 100 * sp.d)

\* results.forEach(r => { ... r.score = ... })
scoreAll(results) ==
  [i \in DOMAIN results |->
     [id |-> results[i].id, price |-> results[i].price,
      free_shipping |-> results[i].free_shipping, seller |-> results[i].seller,
      score |-> score(results[i], results)]]

compareAscending(a, b) == a.score - b.score

\* The comparator (a, b) => (b.score || 0) - (a.score || 0).
compare(a, b) == b.score - a.score

\* Array.prototype.sort is stable: an element goes after every element that
\* the comparator does not put behind it.
RECURSIVE sort(_)
sort(rs) ==
  IF rs = <<>> THEN <<>>
  ELSE LET front == sort(SubSeq(rs, 1, Len(rs) - 1))
           x == rs[Len(rs)]
           k == Cardinality({i \in DOMAIN front : compare(front[i], x) <= 0})
       IN SubSeq(front, 1, k) \o <<x>> \o SubSeq(front, k + 1, Len(front))

FIXED_QUESTION == Str("Quieres priorizar envio rapido aunque cueste un poco mas?")

\* r.free_shipping === false
IsFalse(x) == x.t = "boolean" /\ ~x.v

\* Lines 115-116.
repregunta(crit, results) ==
  IF ~Truthy(Get(crit, "latest_delivery_date"))
       /\ \E i \in DOMAIN results : IsFalse(results[i].free_shipping)
    THEN FIXED_QUESTION ELSE Null


\* -------------------------------------------------------------- the handler

Init ==
  /\ pc = "start"
  /\ req \in [method : Methods, body : Bodies]
  /\ hasKey \in BOOLEAN
  /\ body = Undefined
  /\ prompt = <<>>
  /\ criteria = Null
  /\ q = Undefined
  /\ mlResp = [kind |-> "none"]
  /\ items = <<>>
  /\ lookup = <<>>
  /\ sellerInfos = <<>>
  /\ slots = <<>>
  /\ response = NoResponse
  /\ calls = [openai |-> 0, search |-> 0, seller |-> 0]
  /\ warned = FALSE

\* Lines 21-23: the preflight.
HandleOptions ==
  /\ pc = "start"
  /\ req.method = "OPTIONS"
  /\ Set(send(Cur, 200, EndOfBody))
  /\ UNCHANGED <<req, hasKey, mlResp, items, lookup, sellerInfos, slots>>

\* Lines 24-26.
HandleOtherMethod ==
  /\ pc = "start"
  /\ req.method \notin {"OPTIONS", "POST"}
  /\ Set(send(Cur, 405, [error |-> "Method not allowed"]))
  /\ UNCHANGED <<req, hasKey, mlResp, items, lookup, sellerInfos, slots>>

\* Lines 29-54 for a POST whose body the platform parsed; without one the
\* handler waits for getJsonBody.
HandlePost ==
  /\ pc = "start"
  /\ req.method = "POST"
  /\ IF Truthy(req.body)
       THEN Set(validate(Cur, req.body))
       ELSE Set([Cur EXCEPT !.pc = "getJsonBody"])
  /\ UNCHANGED <<req, hasKey, mlResp, items, lookup, sellerInfos, slots>>

\* Lines 127-136, then 30-54: the stream ends, and its text parses or not.
GetJsonBodySettles ==
  /\ pc = "getJsonBody"
  /\ \E o \in StreamOutcomes :
       IF o.rejected
         THEN Set(serverError(Cur, "Unexpected token"))
         ELSE Set(validate(Cur, o.value))
  /\ UNCHANGED <<req, hasKey, mlResp, items, lookup, sellerInfos, slots>>

\* Lines 38-43, then 50-54: the language model's answer is parsed; a throw is
\* warned about and the heuristic takes over.
OpenAISettles ==
  /\ pc = "openai"
  /\ \E reply \in OpenAIReplies :
       LET r == parsePromptWithOpenAI(reply)
       IN IF r.threw
            THEN Set(startSearch([Cur EXCEPT !.warned = TRUE], heuristicParse(prompt)))
            ELSE Set(startSearch(Cur, r.value))
  /\ UNCHANGED <<req, hasKey, mlResp, items, lookup, sellerInfos, slots>>

\* Line 54 throws: the outer catch answers.
SearchThrows ==
  /\ pc = "search"
  /\ mlResp' = [kind |-> "neterr"]
  /\ Set(serverError(Cur, "fetch failed"))
  /\ UNCHANGED <<req, hasKey, items, lookup, sellerInfos, slots>>

MarketplaceErrorNoDetail(text) == [error |-> "MercadoLibre search error"]

\* Line 58.
MarketplaceError(text) == [error |-> "MercadoLibre search error", detail |-> text]

\* Lines 55-59: a non-success status ends the request.
SearchNotOk ==
  /\ pc = "search"
  /\ \E reply \in SearchReplies :
       /\ reply.kind = "notok"
       /\ Set(send(Cur, 500, MarketplaceError(reply.text)))
       /\ mlResp' = reply
  /\ UNCHANGED <<req, hasKey, items, lookup, sellerInfos, slots>>

\* Line 60 throws on a body that is not JSON.
SearchBadJson ==
  /\ pc = "search"
  /\ mlResp' = [kind |-> "badjson"]
  /\ Set(serverError(Cur, "Unexpected token"))
  /\ UNCHANGED <<req, hasKey, items, lookup, sellerInfos, slots>>

\* Lines 60-70: the items arrive and every callback runs to its first await:
\* an item that names a seller has its lookup issued, any other item's
\* callback returns its result at once.
SearchOk ==
  /\ pc = "search"
  /\ \E reply \in SearchReplies :
       /\ reply.kind \in {"ok", "noarray"}
       /\ LET its == IF reply.kind = "ok" THEN reply.results ELSE <<>>
              asked == {i \in DOMAIN its : NamesSeller(its[i])}
          IN /\ items' = its
             /\ lookup' = [i \in DOMAIN its |-> IF i \in asked THEN "inflight" ELSE "skipped"]
             /\ sellerInfos' = [i \in DOMAIN its |-> Null]
             /\ slots' = [i \in DOMAIN its |->
                            IF i \in asked THEN Pending ELSE Enrich(its[i], Null)]
             /\ Set([Cur EXCEPT !.pc = "lookups", !.calls.seller = @ + Cardinality(asked)])
  /\ mlResp' = [kind |-> "ok"]
  /\ UNCHANGED <<req, hasKey>>

\* A callback ends with sellerInfo info and returns its result.
Settle(i, info, how) ==
  /\ pc = "lookups"
  /\ i \in DOMAIN lookup
  /\ lookup[i] = "inflight"
  /\ lookup' = [lookup EXCEPT ![i] = IF how = "parsed" THEN "ok" ELSE "failed"]
  /\ sellerInfos' = [sellerInfos EXCEPT ![i] = info]
  /\ slots' = writeSlot(slots, i, Enrich(items[i], info))
  /\ UNCHANGED <<pc, req, hasKey, body, prompt, criteria, q, mlResp, items, response, calls, warned>>

\* Lines 66-71: the lookup of one item settles.  A thrown fetch, a non-success
\* status and a body that is not JSON all leave sellerInfo null.
SellerLookupSettles ==
  \E i \in 1..Len(items) :
    \/ Settle(i, Null, "fetch threw")
    \/ Settle(i, Null, "status not ok")
    \/ Settle(i, Null, "json threw")
    \/ \E info \in SellerDetails(SellerIdOf(items[i])) : Settle(i, info, "parsed")

\* Promise.all resolves once no callback is left waiting.
AllSettled == \A i \in DOMAIN lookup : lookup[i] # "inflight"

\* Lines 94-118: score, sort, attach the follow-up question, answer.
PromiseAllResolves ==
  /\ pc = "lookups"
  /\ AllSettled
  /\ LET results == sort(scoreAll(slots))
     IN Set(send(Cur, 200, [ok |-> TRUE, criteria |-> criteria, results |-> results,
                            repregunta |-> repregunta(criteria, results)]))
  /\ UNCHANGED <<req, hasKey, mlResp, items, lookup, sellerInfos, slots>>

Next ==
  \/ HandleOptions
  \/ HandleOtherMethod
  \/ HandlePost
  \/ GetJsonBodySettles
  \/ OpenAISettles
  \/ SearchThrows
  \/ SearchNotOk
  \/ SearchBadJson
  \/ SearchOk
  \/ SellerLookupSettles
  \/ PromiseAllResolves

Spec == Init /\ [][Next]_vars

\* ------------------------------------- the heuristic on a range of prompts

Vocabulary == {W_notebook, W_Notebook, W_barata, W_barato, W_hasta, W_dollar300,
               W_hola, W_tv, W_celular, W_semana, W_5, W_1234567}

RECURSIVE Join(_)
Join(ws) == IF Len(ws) = 1 THEN ws[1] ELSE ws[1] \o <<" ">> \o Join(Tail(ws))

HeuristicPrompts ==
  {Join(ws) : ws \in UNION {[1..n -> Vocabulary] : n \in 1..MaxWords}}

InitHeuristic ==
  /\ pc = "heuristic"
  /\ prompt \in HeuristicPrompts
  /\ req = [method |-> "POST", body |-> Obj([prompt |-> Str(prompt)])]
  /\ hasKey = FALSE
  /\ body = req.body
  /\ criteria = Null
  /\ q = Undefined
  /\ mlResp = [kind |-> "none"]
  /\ items = <<>>
  /\ lookup = <<>>
  /\ sellerInfos = <<>>
  /\ slots = <<>>
  /\ response = NoResponse
  /\ calls = [openai |-> 0, search |-> 0, seller |-> 0]
  /\ warned = FALSE

\* Line 45 alone: criteria = heuristicParse(prompt).
ParseHeuristically ==
  /\ pc = "heuristic"
  /\ criteria' = heuristicParse(prompt)
  /\ pc' = "parsed"
  /\ UNCHANGED <<req, hasKey, body, prompt, q, mlResp, items, lookup, sellerInfos, slots,
                 response, calls, warned>>

NextHeuristic == ParseHeuristically

SpecHeuristic == InitHeuristic /\ [][NextHeuristic]_vars


\* ------------------------------------------------------------------- claims

Results == response.body.results

NoCalls == calls = [openai |-> 0, search |-> 0, seller |-> 0]

\* C1: in every success response the results are in non-increasing order of
\* score, and results of equal score stand in the order in which the
\* marketplace returned them (an item's id is its place in the search reply).
C1_SortedByScoreStable ==
  IsOk(response) =>
    /\ \A i \in 1..(Len(Results) - 1) : Results[i].score >= Results[i + 1].score
    /\ \A i, j \in DOMAIN Results :
         (i < j /\ Results[i].score = Results[j].score) => Results[i].id < Results[j].id
    /\ {Results[i].id : i \in DOMAIN Results} = DOMAIN items
    /\ Len(Results) = Len(items)

\* C1 witness: a success response whose sort moved the second item of the
\* search reply in front of the first.
C1_Witness ==
  /\ IsOk(response)
  /\ Len(Results) = 2
  /\ Results[1].id = 2
  /\ Results[1].score > Results[2].score

\* C2: every result of a success response carries a score in 0..100.
C2_ScoreInRange ==
  IsOk(response) => \A i \in DOMAIN Results : Results[i].score \in 0..100

\* C3: once the language model has been asked, the handler never ends without
\* having gone on to the marketplace search, whatever the model answered.
C3_ExtractionNeverFails ==
  (pc = "done" /\ calls.openai = 1) => calls.search = 1

\* C4: when the search succeeded the handler answers ok: true with one result
\* per item, and a result whose lookup failed (or whose item names no seller)
\* has a seller block that holds only the item's seller id, or null.
C4_FailedLookupKeepsBatch ==
  (pc = "done" /\ mlResp.kind = "ok") =>
    /\ IsOk(response)
    /\ response.status = 200
    /\ Len(Results) = Len(items)
    /\ \A i \in DOMAIN Results :
         LET it == items[Results[i].id]
         IN lookup[it.id] \in {"failed", "skipped"} =>
              Results[i].seller =
                Obj([id |-> IF it.seller = Undefined THEN Null ELSE it.seller.v.id])

\* C4 witness: a success response to a batch of two whose first lookup failed
\* and whose second succeeded.
C4_Witness ==
  /\ IsOk(response)
  /\ Len(items) = 2
  /\ lookup[1] = "failed"
  /\ lookup[2] = "ok"

\* The body the handler read is an object whose prompt is missing, empty or
\* only blanks.
BlankPrompt ==
  /\ body.t = "object"
  /\ "prompt" \in DOMAIN body.v => \A k \in DOMAIN body.v.prompt.v : body.v.prompt.v[k] = " "

C6_DegeneratePriceScoresOne ==
  (IsOk(response) /\ \A i, j \in DOMAIN slots : slots[i].price = slots[j].price) =>
    \A i \in DOMAIN slots : scorePrice(slots[i], slots).n = scorePrice(slots[i], slots).d

SomeNotFree == \E i \in DOMAIN items : items[i].shipping # Bool(TRUE)

\* C8 as stated: the follow-up question is the fixed string exactly when
\* latest_delivery_date is null (or absent) and some result lacks free
\* shipping, and it is null whenever latest_delivery_date is non-null.
C8_QuestionIffNullDate ==
  IsOk(response) =>
    LET d == Get(criteria, "latest_delivery_date")
        none == d.t \in {"null", "undefined"}
    IN /\ (response.body.repregunta = FIXED_QUESTION) <=> (none /\ SomeNotFree)
       /\ ~none => response.body.repregunta = Null

\* C8 amended: the follow-up question is the fixed string exactly when
\* latest_delivery_date is falsy (null, absent or the empty string) and some
\* result lacks free shipping; it is null whenever latest_delivery_date is
\* truthy, whenever every result has free shipping and when there is none.
C8_QuestionIffFalsyDate ==
  IsOk(response) =>
    LET d == Get(criteria, "latest_delivery_date")
        none == d.t \in {"null", "undefined"} \/ (d.t = "string" /\ Len(d.v) = 0)
    IN /\ (response.body.repregunta = FIXED_QUESTION) <=> (none /\ SomeNotFree)
       /\ (response.body.repregunta # FIXED_QUESTION) => response.body.repregunta = Null
       /\ ~none => response.body.repregunta = Null
       /\ ~SomeNotFree => response.body.repregunta = Null

\* C8 witness: the language model put the empty string in latest_delivery_date,
\* an item without a shipping block came back, and the question was asked.
C8_Witness ==
  /\ IsOk(response)
  /\ Get(criteria, "latest_delivery_date") = Str(<<>>)
  /\ \E i \in DOMAIN items : items[i].shipping = Undefined
  /\ response.body.repregunta = FIXED_QUESTION

\* C9: the heuristic makes of "notebook barata hasta $300" the category
\* notebook, the budget 300 and the price weight 0.7.
C9_NotebookBarata ==
  (pc = "parsed" /\ prompt = PromptNotebook) =>
    /\ Get(criteria, "category") = Str(W_notebook)
    /\ Get(criteria, "budget_max") = Num(300)
    /\ Get(criteria, "priority_weights").price = 70

\* C10: no response is sent while a lookup is in flight; at every moment the
\* slot of an item holds nothing while its lookup is in flight and else the
\* result made of that item and of its own lookup's outcome; and the results
\* of the response are those of the items and outcomes, whatever the order in
\* which the lookups settled.
C10_LookupsJoinedAndIndependent ==
  /\ pc = "lookups" => ~response.sent
  /\ IsOk(response) => \A i \in DOMAIN lookup : lookup[i] # "inflight"
  /\ DOMAIN slots = DOMAIN items
  /\ \A i \in DOMAIN items :
       slots[i] = IF lookup[i] = "inflight" THEN Pending ELSE Enrich(items[i], sellerInfos[i])
  /\ IsOk(response) =>
       Results = sort(scoreAll([i \in DOMAIN items |-> Enrich(items[i], sellerInfos[i])]))

\* C10 witness: the lookup of the second item has settled while that of the
\* first is still in flight.
C10_Witness ==
  /\ pc = "lookups"
  /\ Len(items) = 2
  /\ lookup[1] = "inflight"
  /\ lookup[2] = "ok"
  /\ slots[1] = Pending
  /\ slots[2] # Pending

============================================================================
